---- MODULE Spec2Model ----
(***************************************************************************)
(* Model of pydantic_ai_cognitive.planning: the history-compaction pass    *)
(* plan_history_processor (backward redundancy scan + forward rebuild over *)
(* the message log) and the plan state the planning tools mutate.          *)
(*                                                                         *)
(* Python objects are records.  A message is                               *)
(*   [oid, kind, timestamp, has_parts, parts]                              *)
(* where oid is the object's identity (two messages are the same object    *)
(* iff their oids agree), kind is "request" or "response", has_parts says  *)
(* whether the object has a parts attribute, and parts is the ordered part *)
(* list (empty when there is no such attribute).  A part is                *)
(*   [pid, kind, tool_name, tool_call_id, args, content]                   *)
(* where pid is the part object's identity and kind is one of "ToolCall",  *)
(* "ToolReturn", "Text", "UserPrompt", "Unknown".  An absent or empty call *)
(* id is the empty string (both are falsy in the scan's test).             *)
(*                                                                         *)
(* The object a session's plan is attached to (ctx.deps, or ctx itself) is *)
(*   [has_attr, is_context, steps]                                         *)
(* has_attr: the object has a _planning_context attribute; is_context:     *)
(* the attribute's value is a PlanningContext; steps: its step list.       *)
(***************************************************************************)
EXTENDS Integers, Sequences, FiniteSets, TLC

VARIABLES
    history,        \* the message log handed to the pass (list of messages)
    new_history,    \* the list returned by the last pass
    ids_to_remove,  \* the stale-id set computed by the last pass
    found_tools,    \* the found set computed by the last pass
    deps,           \* the session's dependency object (holder of the plan)
    pc,             \* position of the driver
    next_call,      \* number of tool calls the run has issued so far
    ctx_obj,        \* the run-context object itself (holder when deps is None)
    has_deps,       \* ctx.deps is not None
    last,           \* the last plan operation called directly, its outcome,
                    \* and the holder as the call found it
    created,        \* a plan_create has returned in this session
    _skills,        \* the registry of a Skills object, in insertion order
    loaded,         \* the last Skills operation called and its outcome
    other_deps,     \* the dependency object of a second session
    caller,         \* the session (1 or 2) that made the last plan call
    heap,           \* the objects reached from a dependency object that
                    \* concurrent calls share: its slot, contexts, step lists
    threads         \* the concurrent calls: operation, position, locals

vars == <<history, new_history, ids_to_remove, found_tools, deps, pc, next_call,
          ctx_obj, has_deps, last, created, _skills, loaded, other_deps, caller,
          heap, threads>>

\* The variables of the concurrent calls.
thread_vars == <<heap, threads>>

\* The variables of the second session.
session_vars == <<other_deps, caller>>

\* The variables of the Skills object.
skill_vars == <<_skills, loaded>>

\* The variables of the directly called plan operations.
call_vars == <<ctx_obj, has_deps, last, created>>

\* The variables of the message log and the pass.
log_vars == <<history, new_history, ids_to_remove, found_tools, next_call>>

----------------------------------------------------------------------------
(* Bounds of the explored inputs.                                          *)

\* Size of an explored log: its number of parts, a message without parts
\* counting as one.
MaxSize == 3

\* Tool calls issued in an explored agent run.
MaxCalls == 3

\* Length of an explored plan_create argument.
MaxSteps == 2

----------------------------------------------------------------------------
(* Vocabulary of the explored inputs.                                      *)

\* The watched set after a rename of one tool on the dispatcher's side only.
planning_tools_renamed == {"plan_create", "plan_mark_step_complete", "show_progress"}

\* Line 88.
planning_tools == {"plan_create", "plan_mark_step_complete", "plan_show_progress"}

OtherTool == "other_tool"

\* The tool names the explored ToolCall parts carry: the three tools of
\* TOOLSET and one tool of another toolset.
ToolNames == {"plan_create", "plan_mark_step_complete", "plan_show_progress", OtherTool}

\* Tool names carried by the explored ToolReturn parts (the pass never reads a
\* ToolReturn's name).
ReturnNames == {"plan_create", OtherTool}

\* Call ids of the explored logs: absent/empty, and two opaque identifiers.
CallIds == {"", "a", "b"}

ToolKinds == {"ToolCall", "ToolReturn"}

NoArgs == [steps |-> <<>>, step_id |-> 0]

\* ModelResponse carries ToolCall / Text parts, ModelRequest carries
\* ToolReturn / UserPrompt / other (Unknown) parts.
PartShapes(kind) ==
    IF kind = "response"
    THEN [kind : {"ToolCall"}, tool_name : ToolNames, tool_call_id : CallIds]
         \cup [kind : {"Text"}, tool_name : {""}, tool_call_id : {""}]
    ELSE [kind : {"ToolReturn"}, tool_name : ReturnNames, tool_call_id : CallIds]
         \cup [kind : {"UserPrompt", "Unknown"}, tool_name : {""}, tool_call_id : {""}]

MkPart(pid, kind, tool_name, tool_call_id, args, content) ==
    [pid |-> pid, kind |-> kind, tool_name |-> tool_name,
     tool_call_id |-> tool_call_id, args |-> args, content |-> content]

\* All parts of a log, in chronological order.
RECURSIVE AllParts(_)
AllParts(h) == IF h = <<>> THEN <<>> ELSE Head(h).parts \o AllParts(Tail(h))

CountParts(h) == Len(AllParts(h))

RECURSIVE Size(_)
Size(h) ==
    IF h = <<>> THEN 0
    ELSE (IF Head(h).parts = <<>> THEN 1 ELSE Len(Head(h).parts)) + Size(Tail(h))

\* Call ids are opaque: the first identifier a log uses is "a", the next "b".
IdsInOrder(h) ==
    LET f == AllParts(h)
    IN  \A j \in 1..Len(f) :
           f[j].tool_call_id = "b" => "a" \in {f[k].tool_call_id : k \in 1..(j - 1)}

\* A new message object appended to log h: fresh identity, the given parts.
MkMessage(h, kind, parts) ==
    [oid |-> Len(h) + 1, kind |-> kind, timestamp |-> Len(h) + 1,
     has_parts |-> TRUE, parts |-> parts]

\* A new message object of a type that carries no parts attribute.
MkBareMessage(h, kind) ==
    [oid |-> Len(h) + 1, kind |-> kind, timestamp |-> Len(h) + 1,
     has_parts |-> FALSE, parts |-> <<>>]

\* Fresh part objects of the given shapes for a message appended to log h.
MkParts(h, shapes) ==
    [j \in 1..Len(shapes) |->
        MkPart(CountParts(h) + j, shapes[j].kind, shapes[j].tool_name,
               shapes[j].tool_call_id, NoArgs, "c")]

----------------------------------------------------------------------------
(* utils.EnumerateMessageWithParts                                         *)

\* message.parts read without a default: AttributeError on a message that
\* has no such attribute.
getattr_parts_no_default(message) ==
    [raised |-> ~message.has_parts, parts |-> message.parts]

\* Line 20, getattr(message, "parts", []): the part list, and whether the
\* read raised.
getattr_parts(message) ==
    [raised |-> FALSE, parts |-> IF message.has_parts THEN message.parts ELSE <<>>]

\* The (message, parts) pairs of an iterable of messages, in its order.
EnumerateMessageWithParts(h) ==
    [i \in 1..Len(h) |-> <<h[i], getattr_parts(h[i]).parts>>]

\* An exception leaves the iteration over h.
EnumerateRaises(h) == \E i \in 1..Len(h) : getattr_parts(h[i]).raised

reversed(s) == [i \in 1..Len(s) |-> s[Len(s) + 1 - i]]

----------------------------------------------------------------------------
(* planning.plan_history_processor                                         *)

\* ScanPart forgetting the tool once it has marked one of its calls.
ScanPart_toggle(st, part) ==
    IF part.kind = "ToolCall" /\ part.tool_name \in planning_tools
    THEN IF part.tool_name \in st.found_tools /\ part.tool_call_id # ""
         THEN [st EXCEPT !.ids_to_remove = @ \cup {part.tool_call_id},
                         !.found_tools = @ \ {part.tool_name}]
         ELSE [st EXCEPT !.found_tools = @ \cup {part.tool_name}]
    ELSE st

\* ScanPart without the test that the call id is non-empty.
ScanPart_no_id_check(st, part) ==
    IF part.kind = "ToolCall" /\ part.tool_name \in planning_tools
    THEN IF part.tool_name \in st.found_tools
         THEN [st EXCEPT !.ids_to_remove = @ \cup {part.tool_call_id}]
         ELSE [st EXCEPT !.found_tools = @ \cup {part.tool_name}]
    ELSE st

\* ScanPart without the test that the tool is a planning tool.
ScanPart_any_tool(st, part) ==
    IF part.kind = "ToolCall"
    THEN IF part.tool_name \in st.found_tools /\ part.tool_call_id # ""
         THEN [st EXCEPT !.ids_to_remove = @ \cup {part.tool_call_id}]
         ELSE [st EXCEPT !.found_tools = @ \cup {part.tool_name}]
    ELSE st

\* ScanPart that takes ToolReturn parts for calls as well.
ScanPart_returns_too(st, part) ==
    IF part.kind \in {"ToolCall", "ToolReturn"} /\ part.tool_name \in planning_tools
    THEN IF part.tool_name \in st.found_tools /\ part.tool_call_id # ""
         THEN [st EXCEPT !.ids_to_remove = @ \cup {part.tool_call_id}]
         ELSE [st EXCEPT !.found_tools = @ \cup {part.tool_name}]
    ELSE st

\* ScanPart assigning the stale id where it should add it to the set.
ScanPart_replace_set(st, part) ==
    IF part.kind = "ToolCall" /\ part.tool_name \in planning_tools
    THEN IF part.tool_name \in st.found_tools /\ part.tool_call_id # ""
         THEN [st EXCEPT !.ids_to_remove = {part.tool_call_id}]
         ELSE [st EXCEPT !.found_tools = @ \cup {part.tool_name}]
    ELSE st

\* Lines 96-100: one part of the backward scan.
ScanPart(st, part) ==
    IF part.kind = "ToolCall" /\ part.tool_name \in planning_tools
    THEN IF part.tool_name \in st.found_tools /\ part.tool_call_id # ""
         THEN [st EXCEPT !.ids_to_remove = @ \cup {part.tool_call_id}]
         ELSE [st EXCEPT !.found_tools = @ \cup {part.tool_name}]
    ELSE st

\* Line 95: the inner loop over an (already reversed) part list.
RECURSIVE ScanParts(_, _)
ScanParts(st, rparts) ==
    IF rparts = <<>> THEN st
    ELSE ScanParts(ScanPart(st, Head(rparts)), Tail(rparts))

\* Line 94: the outer loop over the enumerated (message, parts) pairs.
RECURSIVE ScanPairs(_, _)
ScanPairs(st, pairs) ==
    IF pairs = <<>> THEN st
    ELSE ScanPairs(ScanParts(st, reversed(Head(pairs)[2])), Tail(pairs))

\* Scan over the messages in chronological instead of reverse order.
Scan_forward(h) ==
    ScanPairs([ids_to_remove |-> {}, found_tools |-> {}], EnumerateMessageWithParts(h))

\* Lines 90-100: the redundancy scan.
Scan(h) ==
    ScanPairs([ids_to_remove |-> {}, found_tools |-> {}],
              EnumerateMessageWithParts(reversed(h)))

\* Dropped matching ToolCall parts only.
Dropped_calls_only(part, ids) == part.kind = "ToolCall" /\ part.tool_call_id \in ids

\* Line 109: the test that drops a part.
Dropped(part, ids) == part.kind \in ToolKinds /\ part.tool_call_id \in ids

\* FilterParts leaving the loop after the first part it drops.
FilterParts_first_only(parts, ids) ==
    LET hits == {j \in 1..Len(parts) : Dropped(parts[j], ids)}
        first == CHOOSE j \in hits : \A k \in hits : j <= k
    IN  IF hits = {} THEN parts
        ELSE [j \in 1..(Len(parts) - 1) |-> IF j < first THEN parts[j] ELSE parts[j + 1]]

\* Lines 105-111: the filtered part list of one message.
FilterParts(parts, ids) == SelectSeq(parts, LAMBDA p : ~Dropped(p, ids))

RECURSIVE MaxOid(_)
MaxOid(h) ==
    IF h = <<>> THEN 0
    ELSE LET m == MaxOid(Tail(h)) IN IF Head(h).oid > m THEN Head(h).oid ELSE m

\* dataclasses.replace(message, parts=new_parts): a new object, every other
\* field copied.
replace(message, new_parts, fresh) ==
    [message EXCEPT !.oid = fresh, !.parts = new_parts]

\* RebuildStep inserting at the front of the list being built.
RebuildStep_prepend(acc, i, ids, base) ==
    LET message == acc.history[i]
        parts == message.parts
        new_parts == FilterParts(parts, ids)
    IN  IF new_parts = <<>> THEN acc
        ELSE IF Len(new_parts) = Len(parts)
        THEN [acc EXCEPT !.new_history = <<message>> \o @]
        ELSE [acc EXCEPT !.new_history = <<replace(message, new_parts, base + i)>> \o @]

\* RebuildStep appending the original message where it should append the
\* filtered copy.
RebuildStep_keep_original(acc, i, ids, base) ==
    LET message == acc.history[i]
        new_parts == FilterParts(message.parts, ids)
    IN  IF new_parts = <<>> THEN acc
        ELSE [acc EXCEPT !.new_history = Append(@, message)]

\* RebuildStep skipping every message that lost a part.
RebuildStep_drop_message(acc, i, ids, base) ==
    LET message == acc.history[i]
        new_parts == FilterParts(message.parts, ids)
    IN  IF Len(new_parts) = Len(message.parts) /\ new_parts # <<>>
        THEN [acc EXCEPT !.new_history = Append(@, message)]
        ELSE acc

\* RebuildStep testing for an unchanged part count before it tests for an
\* empty result.
RebuildStep_unchanged_first(acc, i, ids, base) ==
    LET message == acc.history[i]
        parts == message.parts
        new_parts == FilterParts(parts, ids)
    IN  IF Len(new_parts) = Len(parts)
        THEN [acc EXCEPT !.new_history = Append(@, message)]
        ELSE IF new_parts = <<>> THEN acc
        ELSE [acc EXCEPT !.new_history = Append(@, replace(message, new_parts, base + i))]

\* RebuildStep building a new message for every message it keeps.
RebuildStep_always_copy(acc, i, ids, base) ==
    LET message == acc.history[i]
        new_parts == FilterParts(message.parts, ids)
    IN  IF new_parts = <<>> THEN acc
        ELSE [acc EXCEPT !.new_history = Append(@, replace(message, new_parts, base + i))]

\* Lines 104-121: one iteration of the rebuild loop.  acc.history is the
\* caller's list as the loop leaves it, acc.new_history the list being built.
RebuildStep(acc, i, ids, base) ==
    LET message == acc.history[i]
        parts == message.parts
        new_parts == FilterParts(parts, ids)
    IN  IF new_parts = <<>> THEN acc
        ELSE IF Len(new_parts) = Len(parts)
        THEN [acc EXCEPT !.new_history = Append(@, message)]
        ELSE [acc EXCEPT !.new_history = Append(@, replace(message, new_parts, base + i))]

RECURSIVE Rebuild(_, _, _, _)
Rebuild(acc, i, ids, base) ==
    IF i > Len(acc.history) THEN acc
    ELSE Rebuild(RebuildStep(acc, i, ids, base), i + 1, ids, base)

\* The pass assigning the filtered part list to the message it came from
\* instead of building a copy.
plan_history_processor_inplace(ctx, h) ==
    LET st == Scan(h)
        filtered == [i \in 1..Len(h) |->
                        [h[i] EXCEPT !.parts = FilterParts(@, st.ids_to_remove)]]
    IN  [history |-> filtered,
         new_history |-> SelectSeq(filtered, LAMBDA m : m.parts # <<>>),
         ids_to_remove |-> st.ids_to_remove, found_tools |-> st.found_tools,
         ctx |-> ctx, raised |-> EnumerateRaises(h)]

\* Lines 80-123: the whole pass.  The result records the returned list, the
\* two scan sets, the caller's list and context object as the pass leaves
\* them (the pass assigns to neither), and whether an exception left it.
plan_history_processor(ctx, h) ==
    LET st == Scan(h)
        r == Rebuild([history |-> h, new_history |-> <<>>], 1, st.ids_to_remove, MaxOid(h))
    IN  [history |-> r.history, new_history |-> r.new_history,
         ids_to_remove |-> st.ids_to_remove, found_tools |-> st.found_tools,
         ctx |-> ctx, raised |-> EnumerateRaises(h)]

----------------------------------------------------------------------------
(* planning.PlanStep, PlanningContext, _get_context and the three tools    *)

PlanStep(id, description) == [id |-> id, description |-> description, completed |-> FALSE]

\* A dependency object that no plan operation has touched yet.
FreshDeps == [has_attr |-> FALSE, is_context |-> TRUE, steps |-> <<>>]

\* An object whose _planning_context attribute holds something that is not a
\* PlanningContext (steps is unused).
MismatchedDeps == [has_attr |-> TRUE, is_context |-> FALSE, steps |-> <<>>]

\* A dependency object without the slot, and no context or step list yet:
\* slot is the context the object's _planning_context refers to (0: no
\* such attribute), ctxs[c] the step list that context c's steps refers to,
\* lists[l] the steps of list l.
EmptyHeap == [slot |-> 0, ctxs |-> <<>>, lists |-> <<>>]

\* No Skills operation has been called yet.
NoLoad ==
    [op |-> "", arg |-> "", artifact |-> [is_none |-> TRUE, value |-> ""],
     raised |-> "", result |-> "", before |-> <<>>]

\* No plan operation has been called directly yet.
NoCall ==
    [name |-> "", args |-> NoArgs, raised |-> FALSE, result |-> "",
     before |-> FreshDeps]

RECURSIVE StepLines(_)
StepLines(ss) ==
    IF ss = <<>> THEN ""
    ELSE "\n" \o (IF Head(ss).completed THEN "[x]" ELSE "[ ]") \o " "
         \o ToString(Head(ss).id) \o ". " \o Head(ss).description \o StepLines(Tail(ss))

\* PlanningContext.__str__
str(ss) == IF ss = <<>> THEN "No plan created yet." ELSE "Current Plan:" \o StepLines(ss)

\* Lines 37-48: the target after the call, and whether TypeError was raised.
\* A lookup without the hasattr test: every call stores a new, empty
\* PlanningContext in the slot.
_get_context_always_new(target) ==
    [target |-> [has_attr |-> TRUE, is_context |-> TRUE, steps |-> <<>>],
     raised |-> FALSE]

\* A lookup that answers a foreign value in the slot by storing a new, empty
\* PlanningContext instead of raising.
_get_context_replace_foreign(target) ==
    [target |-> IF target.has_attr /\ target.is_context THEN target
                ELSE [has_attr |-> TRUE, is_context |-> TRUE, steps |-> <<>>],
     raised |-> FALSE]

_get_context(target) ==
    LET t == IF ~target.has_attr
             THEN [has_attr |-> TRUE, is_context |-> TRUE, steps |-> <<>>]
             ELSE target
    IN  [target |-> t, raised |-> ~t.is_context]

\* Lines 51-55.
\* A plan_create that numbers the steps as enumerate does, from 0.
plan_create_zero_based(target, descriptions) ==
    LET g == _get_context(target)
        new_steps == [i \in 1..Len(descriptions) |->
                        [id |-> i - 1, description |-> descriptions[i],
                         completed |-> FALSE]]
    IN  IF g.raised THEN [target |-> g.target, raised |-> TRUE, result |-> ""]
        ELSE [target |-> [g.target EXCEPT !.steps = new_steps], raised |-> FALSE,
              result |-> str(new_steps)]

\* A plan_create that carries the completed flags of the replaced plan over
\* to the steps at the same positions.
plan_create_keep_flags(target, descriptions) ==
    LET g == _get_context(target)
        old == g.target.steps
        new_steps == [i \in 1..Len(descriptions) |->
                        [id |-> i, description |-> descriptions[i],
                         completed |-> i <= Len(old) /\ old[i].completed]]
    IN  IF g.raised THEN [target |-> g.target, raised |-> TRUE, result |-> ""]
        ELSE [target |-> [g.target EXCEPT !.steps = new_steps], raised |-> FALSE,
              result |-> str(new_steps)]

plan_create(target, descriptions) ==
    LET g == _get_context(target)
        new_steps == [i \in 1..Len(descriptions) |-> PlanStep(i, descriptions[i])]
    IN  IF g.raised THEN [target |-> g.target, raised |-> TRUE, result |-> ""]
        ELSE [target |-> [g.target EXCEPT !.steps = new_steps], raised |-> FALSE,
              result |-> str(new_steps)]

\* Lines 62-66: index of the first step with the given id, 0 when there is none.
\* A lookup that takes step_id for a 0-based position in the list.
FindStep_zero_based(ss, step_id, i) ==
    IF step_id + 1 \in 1..Len(ss) THEN step_id + 1 ELSE 0

RECURSIVE FindStep(_, _, _)
FindStep(ss, step_id, i) ==
    IF i > Len(ss) THEN 0
    ELSE IF ss[i].id = step_id THEN i
    ELSE FindStep(ss, step_id, i + 1)

\* Lines 58-71.
\* A plan_mark_step_complete that flips the flag of the matching step.
plan_mark_step_complete_toggle(target, step_id) ==
    LET g == _get_context(target)
        k == FindStep(g.target.steps, step_id, 1)
        new_steps == [g.target.steps EXCEPT ![k].completed = ~@]
    IN  IF g.raised THEN [target |-> g.target, raised |-> TRUE, result |-> ""]
        ELSE IF k = 0
        THEN [target |-> g.target, raised |-> FALSE,
              result |-> "Step " \o ToString(step_id) \o " not found."]
        ELSE [target |-> [g.target EXCEPT !.steps = new_steps], raised |-> FALSE,
              result |-> str(new_steps)]

\* A plan_mark_step_complete without the not-found return: it renders the
\* plan whether or not a step matched.
plan_mark_step_complete_unchecked(target, step_id) ==
    LET g == _get_context(target)
        k == FindStep(g.target.steps, step_id, 1)
        new_steps == IF k = 0 THEN g.target.steps
                     ELSE [g.target.steps EXCEPT ![k].completed = TRUE]
    IN  IF g.raised THEN [target |-> g.target, raised |-> TRUE, result |-> ""]
        ELSE [target |-> [g.target EXCEPT !.steps = new_steps], raised |-> FALSE,
              result |-> str(new_steps)]

plan_mark_step_complete(target, step_id) ==
    LET g == _get_context(target)
        k == FindStep(g.target.steps, step_id, 1)
        new_steps == [g.target.steps EXCEPT ![k].completed = TRUE]
    IN  IF g.raised THEN [target |-> g.target, raised |-> TRUE, result |-> ""]
        ELSE IF k = 0
        THEN [target |-> g.target, raised |-> FALSE,
              result |-> "Step " \o ToString(step_id) \o " not found."]
        ELSE [target |-> [g.target EXCEPT !.steps = new_steps], raised |-> FALSE,
              result |-> str(new_steps)]

\* Lines 74-77.
\* A plan_show_progress that keeps only the pending steps in the plan.
plan_show_progress_pending(target) ==
    LET g == _get_context(target)
        pending == SelectSeq(g.target.steps, LAMBDA st : ~st.completed)
    IN  IF g.raised THEN [target |-> g.target, raised |-> TRUE, result |-> ""]
        ELSE [target |-> [g.target EXCEPT !.steps = pending], raised |-> FALSE,
              result |-> str(pending)]

plan_show_progress(target) ==
    LET g == _get_context(target)
    IN  IF g.raised THEN [target |-> g.target, raised |-> TRUE, result |-> ""]
        ELSE [target |-> g.target, raised |-> FALSE, result |-> str(g.target.steps)]

----------------------------------------------------------------------------
(* The pass applied to arbitrary logs.                                     *)

Init ==
    /\ history = <<>>
    /\ new_history = <<>>
    /\ ids_to_remove = {}
    /\ found_tools = {}
    /\ deps = FreshDeps
    /\ pc = "build"
    /\ next_call = 0
    /\ ctx_obj = FreshDeps
    /\ has_deps = TRUE
    /\ last = NoCall
    /\ created = FALSE
    /\ _skills = <<>>
    /\ loaded = NoLoad
    /\ heap = EmptyHeap
    /\ threads = <<>>
    /\ other_deps = FreshDeps
    /\ caller = 0

\* The log grows by one message.
AppendMessage ==
    /\ pc = "build"
    /\ Size(history) < MaxSize
    /\ \E kind \in {"request", "response"} :
       \E n \in 0..(MaxSize - Size(history)) :
       \E shapes \in [1..n -> PartShapes(kind)] :
       \E has_parts \in (IF n = 0 THEN BOOLEAN ELSE {TRUE}) :
          /\ history' = Append(history,
                           IF has_parts
                           THEN MkMessage(history, kind, MkParts(history, shapes))
                           ELSE MkBareMessage(history, kind))
          /\ IdsInOrder(history')
    /\ UNCHANGED <<new_history, ids_to_remove, found_tools, deps, pc, next_call>>
    /\ UNCHANGED call_vars
    /\ UNCHANGED skill_vars
    /\ UNCHANGED thread_vars
    /\ UNCHANGED session_vars

\* The hook is applied to the full log.
Process ==
    /\ pc = "build"
    /\ LET r == plan_history_processor(deps, history)
       IN  /\ history' = r.history
           /\ new_history' = r.new_history
           /\ ids_to_remove' = r.ids_to_remove
           /\ found_tools' = r.found_tools
           /\ deps' = r.ctx
           /\ pc' = IF r.raised THEN "raised" ELSE "done"
    /\ UNCHANGED next_call
    /\ UNCHANGED call_vars
    /\ UNCHANGED skill_vars
    /\ UNCHANGED thread_vars
    /\ UNCHANGED session_vars

Next == AppendMessage \/ Process

Spec == Init /\ [][Next]_vars

----------------------------------------------------------------------------
(* An agent run: the host runtime applies the hook to the full log before  *)
(* every model inference call, appends the model's response, dispatches    *)
(* its tool calls one at a time and appends their returns.                 *)

\* Arguments the explored model passes to a tool.
ArgsOf(name) ==
    IF name = "plan_create" THEN {[steps |-> <<"Step 1", "Step 2">>, step_id |-> 0]}
    ELSE IF name = "plan_mark_step_complete"
    THEN {[steps |-> <<>>, step_id |-> 1], [steps |-> <<>>, step_id |-> 3]}
    ELSE {NoArgs}

\* The host runtime's dispatch of one tool call on the session's object.
Dispatch(target, part) ==
    IF part.tool_name = "plan_create" THEN plan_create(target, part.args.steps)
    ELSE IF part.tool_name = "plan_mark_step_complete"
    THEN plan_mark_step_complete(target, part.args.step_id)
    ELSE IF part.tool_name = "plan_show_progress" THEN plan_show_progress(target)
    ELSE [target |-> target, raised |-> FALSE, result |-> "ok"]

\* The calls of one response dispatched in order; acc collects the returns.
RECURSIVE RunTools(_, _, _)
RunTools(acc, calls, pid0) ==
    IF calls = <<>> \/ acc.raised THEN acc
    ELSE LET c == Head(calls)
             d == Dispatch(acc.target, c)
             ret == MkPart(pid0 + Len(acc.returns) + 1, "ToolReturn", c.tool_name,
                           c.tool_call_id, NoArgs, d.result)
         IN  RunTools([target |-> d.target, raised |-> d.raised,
                       returns |-> Append(acc.returns, ret)], Tail(calls), pid0)

IsCall(p) == p.kind = "ToolCall"

InitRun ==
    /\ history = <<MkMessage(<<>>, "request",
                     <<MkPart(1, "UserPrompt", "", "", NoArgs, "prompt")>>)>>
    /\ new_history = <<>>
    /\ ids_to_remove = {}
    /\ found_tools = {}
    /\ deps = FreshDeps
    /\ pc = "hook"
    /\ next_call = 0
    /\ ctx_obj = FreshDeps
    /\ has_deps = TRUE
    /\ last = NoCall
    /\ created = FALSE
    /\ _skills = <<>>
    /\ loaded = NoLoad
    /\ heap = EmptyHeap
    /\ threads = <<>>
    /\ other_deps = FreshDeps
    /\ caller = 0

\* Before a model inference call the hook is applied to the full log.
RunHook ==
    /\ pc = "hook"
    /\ LET r == plan_history_processor(deps, history)
       IN  /\ history' = r.history
           /\ new_history' = r.new_history
           /\ ids_to_remove' = r.ids_to_remove
           /\ found_tools' = r.found_tools
           /\ deps' = r.ctx
           /\ pc' = IF r.raised THEN "end" ELSE "infer"
    /\ UNCHANGED next_call
    /\ UNCHANGED call_vars
    /\ UNCHANGED skill_vars
    /\ UNCHANGED thread_vars
    /\ UNCHANGED session_vars

\* The model answers with one tool call, with or without a leading text; the
\* call carries a per-invocation id, or none.
ModelCallsTool ==
    /\ pc = "infer"
    /\ next_call < MaxCalls
    /\ \E name \in ToolNames : \E args \in ArgsOf(name) :
       \E id \in {"", "call_" \o ToString(next_call + 1)} : \E with_text \in BOOLEAN :
          LET n == CountParts(history)
              text == MkPart(n + 1, "Text", "", "", NoArgs, "Thinking...")
              call == MkPart(n + (IF with_text THEN 2 ELSE 1), "ToolCall", name, id, args, "")
          IN  history' = Append(history, MkMessage(history, "response",
                                   IF with_text THEN <<text, call>> ELSE <<call>>))
    /\ next_call' = next_call + 1
    /\ pc' = "tools"
    /\ UNCHANGED <<new_history, ids_to_remove, found_tools, deps>>
    /\ UNCHANGED call_vars
    /\ UNCHANGED skill_vars
    /\ UNCHANGED thread_vars
    /\ UNCHANGED session_vars

\* The model answers with a final text: the run ends.
ModelFinishes ==
    /\ pc = "infer"
    /\ history' = Append(history, MkMessage(history, "response",
                     <<MkPart(CountParts(history) + 1, "Text", "", "", NoArgs, "All done")>>))
    /\ pc' = "end"
    /\ UNCHANGED <<new_history, ids_to_remove, found_tools, deps, next_call>>
    /\ UNCHANGED call_vars
    /\ UNCHANGED skill_vars
    /\ UNCHANGED thread_vars
    /\ UNCHANGED session_vars

\* The tool calls of the last response are dispatched and their returns
\* appended as one request.
ExecTools ==
    /\ pc = "tools"
    /\ LET calls == SelectSeq(history[Len(history)].parts, IsCall)
           r == RunTools([target |-> deps, raised |-> FALSE, returns |-> <<>>],
                         calls, CountParts(history))
       IN  /\ deps' = r.target
           /\ history' = Append(history, MkMessage(history, "request", r.returns))
           /\ pc' = IF r.raised THEN "end" ELSE "hook"
    /\ UNCHANGED <<new_history, ids_to_remove, found_tools, next_call>>
    /\ UNCHANGED call_vars
    /\ UNCHANGED skill_vars
    /\ UNCHANGED thread_vars
    /\ UNCHANGED session_vars

NextRun == RunHook \/ ModelCallsTool \/ ModelFinishes \/ ExecTools

SpecRun == InitRun /\ [][NextRun]_vars

----------------------------------------------------------------------------
(* The plan operations called one at a time on one session.                *)

\* Step descriptions handed to plan_create.
Descriptions == {"Step 1", "Step 2"}

\* The explored plan_create arguments: every description list up to MaxSteps.
StepLists == UNION {[1..n -> Descriptions] : n \in 0..MaxSteps}

\* The explored step_id arguments: negative, zero, every id of a plan, and
\* one above.
StepIds == (0 - 1)..(MaxSteps + 1)

\* Line 38: the object that holds the plan, ctx.deps unless it is None.
TargetOf(c, d, hd) == IF hd THEN d ELSE c

\* One plan operation called with the session's run context.
Call(name, args) ==
    LET target == TargetOf(ctx_obj, deps, has_deps)
        r == Dispatch(target, [tool_name |-> name, args |-> args])
    IN  /\ deps' = IF has_deps THEN r.target ELSE deps
        /\ ctx_obj' = IF has_deps THEN ctx_obj ELSE r.target
        /\ last' = [name |-> name, args |-> args, raised |-> r.raised,
                    result |-> r.result, before |-> target]
        /\ created' = (created \/ (name = "plan_create" /\ ~r.raised))
        /\ UNCHANGED <<has_deps, pc>>
        /\ UNCHANGED log_vars
        /\ UNCHANGED skill_vars
        /\ UNCHANGED thread_vars
        /\ UNCHANGED session_vars

\* A session before its first plan operation: with or without a dependency
\* object, the holder's slot absent or holding a foreign value.
InitPlan ==
    /\ history = <<>>
    /\ new_history = <<>>
    /\ ids_to_remove = {}
    /\ found_tools = {}
    /\ next_call = 0
    /\ pc = "plan"
    /\ has_deps \in BOOLEAN
    /\ \E holder \in {FreshDeps, MismatchedDeps} :
          /\ deps = IF has_deps THEN holder ELSE FreshDeps
          /\ ctx_obj = IF has_deps THEN FreshDeps ELSE holder
    /\ last = NoCall
    /\ created = FALSE
    /\ _skills = <<>>
    /\ loaded = NoLoad
    /\ heap = EmptyHeap
    /\ threads = <<>>
    /\ other_deps = FreshDeps
    /\ caller = 0

PlanCreate ==
    /\ pc = "plan"
    /\ \E steps \in StepLists : Call("plan_create", [steps |-> steps, step_id |-> 0])

PlanMarkStepComplete ==
    /\ pc = "plan"
    /\ \E step_id \in StepIds :
          Call("plan_mark_step_complete", [steps |-> <<>>, step_id |-> step_id])

PlanShowProgress ==
    /\ pc = "plan"
    /\ Call("plan_show_progress", NoArgs)

NextPlan == PlanCreate \/ PlanMarkStepComplete \/ PlanShowProgress

SpecPlan == InitPlan /\ [][NextPlan]_vars

----------------------------------------------------------------------------
(* Two sessions, each with a dependency object of its own.                 *)

Sessions == {1, 2}

\* Every session's run context refers to the one dependency object.
DepsOf_shared(session) == "deps"

\* Line 38, ctx.deps: the dependency object the session's run context
\* refers to.
DepsOf(session) == IF session = 1 THEN "deps" ELSE "other_deps"

\* One plan operation called with the run context of the session.
SessionCall(session, name, args) ==
    LET target == IF DepsOf(session) = "deps" THEN deps ELSE other_deps
        r == Dispatch(target, [tool_name |-> name, args |-> args])
    IN  /\ deps' = IF DepsOf(session) = "deps" THEN r.target ELSE deps
        /\ other_deps' = IF DepsOf(session) = "other_deps" THEN r.target
                         ELSE other_deps
        /\ last' = [name |-> name, args |-> args, raised |-> r.raised,
                    result |-> r.result, before |-> target]
        /\ caller' = session
        /\ UNCHANGED <<ctx_obj, has_deps, created, pc>>
        /\ UNCHANGED log_vars
        /\ UNCHANGED skill_vars
        /\ UNCHANGED thread_vars

InitSessions ==
    /\ history = <<>>
    /\ new_history = <<>>
    /\ ids_to_remove = {}
    /\ found_tools = {}
    /\ next_call = 0
    /\ pc = "sessions"
    /\ deps = FreshDeps
    /\ other_deps = FreshDeps
    /\ caller = 0
    /\ ctx_obj = FreshDeps
    /\ has_deps = TRUE
    /\ last = NoCall
    /\ created = FALSE
    /\ _skills = <<>>
    /\ loaded = NoLoad
    /\ heap = EmptyHeap
    /\ threads = <<>>

\* The plan_create arguments of a session: up to MaxSteps steps, described
\* differently in the two sessions.
SessionStepLists(session) ==
    {[i \in 1..n |-> IF session = 1 THEN "Step 1" ELSE "Step 2"] : n \in 0..MaxSteps}

SessionCreate ==
    /\ pc = "sessions"
    /\ \E session \in Sessions :
          \E steps \in SessionStepLists(session) :
             SessionCall(session, "plan_create", [steps |-> steps, step_id |-> 0])

SessionMark ==
    /\ pc = "sessions"
    /\ \E session \in Sessions, step_id \in StepIds :
          SessionCall(session, "plan_mark_step_complete",
                      [steps |-> <<>>, step_id |-> step_id])

SessionShow ==
    /\ pc = "sessions"
    /\ \E session \in Sessions : SessionCall(session, "plan_show_progress", NoArgs)

NextSessions == SessionCreate \/ SessionMark \/ SessionShow

SpecSessions == InitSessions /\ [][NextSessions]_vars

----------------------------------------------------------------------------
(* Plan operations called concurrently on one session.  Every read and     *)
(* every write of a shared object is a step of its own; the slot only ever *)
(* holds PlanningContext objects here.                                     *)

\* Number of concurrent calls.
MaxThreads == 2

Threads == 1..MaxThreads

\* The step descriptions of a plan of n steps.
ThreadSteps(n) == [i \in 1..n |-> "Step " \o ToString(i)]

\* The calls a thread can make.
ThreadOps ==
    {[name |-> "plan_create", args |-> [steps |-> ThreadSteps(n), step_id |-> 0]] :
        n \in {1, MaxSteps}}
    \cup {[name |-> "plan_mark_step_complete", args |-> [steps |-> <<>>, step_id |-> k]] :
            k \in 1..MaxSteps}
    \cup {[name |-> "plan_show_progress", args |-> NoArgs]}

\* A call about to begin: at is its position, has the outcome of its hasattr
\* test, ctx the context it obtained, list the step list its loop iterates,
\* k the position of the matching step in it; result is the text returned,
\* shown the steps rendered and current the step list of the context the
\* dependency object holds at the return.
NewThread(op) ==
    [name |-> op.name, args |-> op.args, at |-> "hasattr", has |-> FALSE,
     ctx |-> 0, list |-> 0, k |-> 0, result |-> "", shown |-> <<>>, current |-> 0]

\* A dependency object holding a context with a plan of MaxSteps steps.
PlannedHeap ==
    [slot |-> 1, ctxs |-> <<1>>,
     lists |-> <<[i \in 1..MaxSteps |-> PlanStep(i, ThreadSteps(MaxSteps)[i])]>>]

\* A lazy creation that does not depend on the outcome of the hasattr test.
NeedsContext_always(has) == TRUE

\* Line 40: the context is created when the attribute is absent.
NeedsContext(has) == ~has

\* Line 42: a new PlanningContext, with a new empty step list, is stored in
\* the slot.
AttachContext(hp) ==
    [slot |-> Len(hp.ctxs) + 1,
     ctxs |-> Append(hp.ctxs, Len(hp.lists) + 1),
     lists |-> Append(hp.lists, <<>>)]

\* Line 54: a new step list is stored in context c.
AssignSteps(hp, c, descriptions) ==
    [hp EXCEPT !.ctxs[c] = Len(hp.lists) + 1,
               !.lists = Append(@, [i \in 1..Len(descriptions) |->
                                       PlanStep(i, descriptions[i])])]

\* A loop that leaves the matching step as it is.
SetCompleted_nothing(hp, l, k) == hp

\* Line 64: step.completed = True on the k-th step object of list l.
SetCompleted(hp, l, k) == [hp EXCEPT !.lists[l][k].completed = TRUE]

\* The step list context c refers to.
StepsOf(hp, c) == hp.lists[hp.ctxs[c]]

InitThreads ==
    /\ history = <<>>
    /\ new_history = <<>>
    /\ ids_to_remove = {}
    /\ found_tools = {}
    /\ next_call = 0
    /\ pc = "threads"
    /\ deps = FreshDeps
    /\ other_deps = FreshDeps
    /\ caller = 0
    /\ ctx_obj = FreshDeps
    /\ has_deps = TRUE
    /\ last = NoCall
    /\ created = FALSE
    /\ _skills = <<>>
    /\ loaded = NoLoad
    /\ heap \in {EmptyHeap, PlannedHeap}
    /\ threads \in [Threads -> {NewThread(op) : op \in ThreadOps}]

\* The variables no concurrent call touches.
sequential_vars ==
    <<history, new_history, ids_to_remove, found_tools, next_call, pc, deps,
      other_deps, caller, ctx_obj, has_deps, last, created, _skills, loaded>>

\* Line 40: hasattr(target, "_planning_context").
CheckAttr ==
    /\ pc = "threads"
    /\ \E t \in Threads :
          /\ threads[t].at = "hasattr"
          /\ threads' = [threads EXCEPT
                            ![t].has = (heap.slot # 0),
                            ![t].at = IF NeedsContext(heap.slot # 0)
                                      THEN "attach" ELSE "read"]
    /\ UNCHANGED heap
    /\ UNCHANGED sequential_vars

\* Line 42: target._planning_context = PlanningContext().
Attach ==
    /\ pc = "threads"
    /\ \E t \in Threads :
          /\ threads[t].at = "attach"
          /\ heap' = AttachContext(heap)
          /\ threads' = [threads EXCEPT ![t].at = "read"]
    /\ UNCHANGED sequential_vars

\* Line 44: context = target._planning_context.
ReadContext ==
    /\ pc = "threads"
    /\ \E t \in Threads :
          /\ threads[t].at = "read"
          /\ threads' = [threads EXCEPT
                            ![t].ctx = heap.slot,
                            ![t].at = IF threads[t].name = "plan_create" THEN "assign"
                                      ELSE IF threads[t].name = "plan_mark_step_complete"
                                      THEN "iterate" ELSE "render"]
    /\ UNCHANGED heap
    /\ UNCHANGED sequential_vars

\* Line 54: p_ctx.steps = [...].
AssignPlan ==
    /\ pc = "threads"
    /\ \E t \in Threads :
          /\ threads[t].at = "assign"
          /\ heap' = AssignSteps(heap, threads[t].ctx, threads[t].args.steps)
          /\ threads' = [threads EXCEPT ![t].at = "render"]
    /\ UNCHANGED sequential_vars

\* Lines 62-63: the loop takes p_ctx.steps and looks for the step.
Iterate ==
    /\ pc = "threads"
    /\ \E t \in Threads :
          /\ threads[t].at = "iterate"
          /\ LET l == heap.ctxs[threads[t].ctx]
                 k == FindStep(heap.lists[l], threads[t].args.step_id, 1)
             IN  threads' = [threads EXCEPT
                                ![t].list = l, ![t].k = k,
                                ![t].at = IF k = 0 THEN "not_found" ELSE "set"]
    /\ UNCHANGED heap
    /\ UNCHANGED sequential_vars

\* Line 64: step.completed = True.
SetFlag ==
    /\ pc = "threads"
    /\ \E t \in Threads :
          /\ threads[t].at = "set"
          /\ heap' = SetCompleted(heap, threads[t].list, threads[t].k)
          /\ threads' = [threads EXCEPT ![t].at = "render"]
    /\ UNCHANGED sequential_vars

\* Lines 68-69: return f"Step {step_id} not found.".
ReturnNotFound ==
    /\ pc = "threads"
    /\ \E t \in Threads :
          /\ threads[t].at = "not_found"
          /\ threads' = [threads EXCEPT
                            ![t].result = "Step " \o ToString(threads[t].args.step_id)
                                          \o " not found.",
                            ![t].at = "done"]
    /\ UNCHANGED heap
    /\ UNCHANGED sequential_vars

\* Lines 55, 71, 77: return str(p_ctx).
ReturnRender ==
    /\ pc = "threads"
    /\ \E t \in Threads :
          /\ threads[t].at = "render"
          /\ threads' = [threads EXCEPT
                            ![t].result = str(StepsOf(heap, threads[t].ctx)),
                            ![t].shown = StepsOf(heap, threads[t].ctx),
                            ![t].current = heap.ctxs[heap.slot],
                            ![t].at = "done"]
    /\ UNCHANGED heap
    /\ UNCHANGED sequential_vars

NextThreads ==
    \/ CheckAttr \/ Attach \/ ReadContext \/ AssignPlan \/ Iterate
    \/ SetFlag \/ ReturnNotFound \/ ReturnRender

SpecThreads == InitThreads /\ [][NextThreads]_vars

----------------------------------------------------------------------------
(* The skill registry (skills.py) over a fixed file tree.                  *)
(*                                                                         *)
(*   /nowhere            does not exist                                    *)
(*   /notes.txt          a file                                            *)
(*   /secret.txt         a file outside every skill folder                 *)
(*   /empty              a directory without any skill.md                  *)
(*   /a/skill.md         skill "a";  /a/example.txt a file;  /a/sub a dir  *)
(*   /pack/b/skill.md    skill "b"                                         *)
(*   /pack/c/skill.md    a skill.md whose frontmatter has no description   *)

\* A file name longer than the file system allows in one path component.
LongName == "name-of-more-than-255-characters"

Directories == {"/empty", "/a", "/a/sub", "/pack", "/pack/b", "/pack/c"}

NoFrontmatter ==
    [shape |-> "none", has_name |-> FALSE, name |-> "",
     has_description |-> FALSE, description |-> ""]

\* The files of the tree: their text and, parsed, their YAML frontmatter.
Files ==
    {[path |-> "/notes.txt", text |-> "notes", fm |-> NoFrontmatter],
     [path |-> "/secret.txt", text |-> "secret", fm |-> NoFrontmatter],
     [path |-> "/a/example.txt", text |-> "example of a", fm |-> NoFrontmatter],
     [path |-> "/a/skill.md", text |-> "---\nname: a\ndescription: Skill a\n---\n\nBody a",
      fm |-> [shape |-> "dict", has_name |-> TRUE, name |-> "a",
              has_description |-> TRUE, description |-> "Skill a"]],
     [path |-> "/pack/b/skill.md", text |-> "---\nname: b\ndescription: Skill b\n---\n\nBody b",
      fm |-> [shape |-> "dict", has_name |-> TRUE, name |-> "b",
              has_description |-> TRUE, description |-> "Skill b"]],
     [path |-> "/pack/c/skill.md", text |-> "---\nname: c\n---\n\nBody c",
      fm |-> [shape |-> "dict", has_name |-> TRUE, name |-> "c",
              has_description |-> FALSE, description |-> ""]]}

FilePaths == {f.path : f \in Files}

FileAt(path) == CHOOSE f \in Files : f.path = path

\* The path with its parent-directory components resolved, as the operating
\* system resolves it on access.
Resolve(path) ==
    IF path = "/a/../secret.txt" THEN "/secret.txt"
    ELSE IF path = "/pack/b/../secret.txt" THEN "/pack/secret.txt"
    ELSE path

\* What a stat of the path finds; "refused" when the operating system fails
\* the call with an error other than not-found (ENAMETOOLONG).
Stat(path) ==
    IF path \in {"/a/" \o LongName, "/pack/b/" \o LongName} THEN "refused"
    ELSE IF Resolve(path) \in FilePaths THEN "file"
    ELSE IF Resolve(path) \in Directories THEN "dir"
    ELSE "missing"

\* Path.exists(): its possible outcomes.  A refused stat raises OSError on
\* the interpreters whose exists() passes such errors on (CPython up to
\* 3.11) and gives False on the others.
ExistsOutcomes(path) ==
    IF Stat(path) = "refused" THEN {"OSError", "false"}
    ELSE IF Stat(path) = "missing" THEN {"false"}
    ELSE {"true"}

\* Path.read_text(): the text, or the exception it raises.
read_text(path) ==
    IF Stat(path) = "file"
    THEN [raised |-> FALSE, text |-> FileAt(Resolve(path)).text]
    ELSE [raised |-> TRUE, text |-> "[Errno 21] Is a directory: '" \o path \o "'"]

\* folder_path.rglob("skill.md"), in the order the directory scan yields.
rglob(folder) ==
    IF folder = "/a" THEN <<"/a/skill.md">>
    ELSE IF folder = "/pack" THEN <<"/pack/b/skill.md", "/pack/c/skill.md">>
    ELSE <<>>

\* skill_md_path.parent
Parent(skill_md_path) ==
    IF skill_md_path = "/a/skill.md" THEN "/a"
    ELSE IF skill_md_path = "/pack/b/skill.md" THEN "/pack/b"
    ELSE "/pack/c"

\* folder_path / artifact_path: an absolute right operand replaces the left.
JoinPath(folder_path, artifact_path) ==
    IF artifact_path = "/secret.txt" THEN artifact_path
    ELSE folder_path \o "/" \o artifact_path

\* str.strip() on the explored strings.
strip(str_value) == IF str_value \in {"", " ", "\t "} THEN "" ELSE str_value

\* Lines 94-132: the metadata of a skill.md, or the exception raised.
_extract_metadata(skill_md_path) ==
    LET fm == FileAt(skill_md_path).fm
        failure ==
            IF read_text(skill_md_path).raised THEN "ValueError"
            ELSE IF fm.shape \in {"none", "invalid"} THEN "ValueError"
            ELSE IF fm.shape # "dict" THEN "TypeError"
            ELSE IF ~fm.has_name THEN "ValueError"
            ELSE IF fm.name = "" \/ strip(fm.name) = "" THEN "ValueError"
            ELSE IF ~fm.has_description THEN "ValueError"
            ELSE IF fm.description = "" \/ strip(fm.description) = "" THEN "ValueError"
            ELSE ""
    IN  [raised |-> failure, name |-> fm.name, description |-> fm.description]

\* The position of the skill name among the registry's keys, 0 if absent.
KeyIndex(reg, name) ==
    IF \E i \in 1..Len(reg) : reg[i].name = name
    THEN CHOOSE i \in 1..Len(reg) : reg[i].name = name
    ELSE 0

\* self._skills[name] = meta: a present key keeps its place.
SetItem(reg, meta) ==
    IF KeyIndex(reg, meta.name) = 0 THEN Append(reg, meta)
    ELSE [reg EXCEPT ![KeyIndex(reg, meta.name)] = meta]

\* Lines 65-79: the loop over the skill.md files found, from the i-th on.
RECURSIVE RegisterFiles(_, _, _)
RegisterFiles(reg, skill_md_files, i) ==
    IF i > Len(skill_md_files) THEN [skills |-> reg, raised |-> ""]
    ELSE LET metadata == _extract_metadata(skill_md_files[i])
         IN  IF metadata.raised # ""
             THEN [skills |-> reg, raised |-> metadata.raised]
             ELSE RegisterFiles(
                      SetItem(reg, [name |-> metadata.name,
                                    folder_path |-> Parent(skill_md_files[i]),
                                    skill_md_path |-> skill_md_files[i],
                                    description |-> metadata.description,
                                    license |-> ""]),
                      skill_md_files, i + 1)

\* A register_skill without the test for an empty search result.
register_skill_no_empty_check(reg, skill_folder) ==
    IF Stat(skill_folder) = "missing"
    THEN [skills |-> reg, raised |-> "FileNotFoundError"]
    ELSE IF Stat(skill_folder) # "dir"
    THEN [skills |-> reg, raised |-> "ValueError"]
    ELSE RegisterFiles(reg, rglob(skill_folder), 1)

\* Lines 33-79: the registry after the call and the exception raised, if any.
register_skill(reg, skill_folder) ==
    IF Stat(skill_folder) = "missing"
    THEN [skills |-> reg, raised |-> "FileNotFoundError"]
    ELSE IF Stat(skill_folder) # "dir"
    THEN [skills |-> reg, raised |-> "ValueError"]
    ELSE IF rglob(skill_folder) = <<>>
    THEN [skills |-> reg, raised |-> "ValueError"]
    ELSE RegisterFiles(reg, rglob(skill_folder), 1)

\* ", ".join(self._skills.keys())
RECURSIVE JoinKeys(_)
JoinKeys(reg) ==
    IF reg = <<>> THEN ""
    ELSE IF Len(reg) = 1 THEN reg[1].name
    ELSE reg[1].name \o ", " \o JoinKeys(Tail(reg))

\* Lines 159-162: the file skill_load reads for a registered skill.
TargetFile(skill_meta, artifact) ==
    IF artifact.is_none \/ strip(artifact.value) = ""
    THEN skill_meta.skill_md_path
    ELSE JoinPath(skill_meta.folder_path, artifact.value)

\* Lines 134-170: the registry after the call, the exception that leaves
\* the call, if any, and the text returned; exists is the outcome of
\* target_file.exists().
skill_load(reg, skill_name, artifact, exists) ==
    IF KeyIndex(reg, skill_name) = 0
    THEN [skills |-> reg, raised |-> "",
          result |-> "Error: Skill '" \o skill_name
                     \o "' not registered. Available skills: "
                     \o (IF reg # <<>> THEN JoinKeys(reg) ELSE "none")]
    ELSE LET target_file == TargetFile(reg[KeyIndex(reg, skill_name)], artifact)
             read == read_text(target_file)
         IN  IF exists = "OSError"
             THEN [skills |-> reg, raised |-> "OSError", result |-> ""]
             ELSE IF exists = "false"
             THEN [skills |-> reg, raised |-> "",
                   result |-> "Error: Artifact file not found: " \o target_file]
             ELSE IF read.raised
             THEN [skills |-> reg, raised |-> "",
                   result |-> "Error: Failed to read artifact file "
                              \o target_file \o ": " \o read.text]
             ELSE [skills |-> reg, raised |-> "", result |-> read.text]

\* The explored register_skill arguments.
SkillFolders == {"/nowhere", "/notes.txt", "/empty", "/a", "/pack"}

\* The explored skill_load arguments.
SkillNames == {"a", "b", "nonexistent-skill"}

NoArtifact == [is_none |-> TRUE, value |-> ""]

Artifacts ==
    {NoArtifact}
    \cup {[is_none |-> FALSE, value |-> v] :
            v \in {"", " ", "example.txt", "missing.txt", "sub", LongName,
                   "../secret.txt", "/secret.txt"}}

\* The outcomes target_file.exists() can have in the call, "true" standing
\* for the calls that do not reach it.
ExistsIn(reg, skill_name, artifact) ==
    IF KeyIndex(reg, skill_name) = 0 THEN {"true"}
    ELSE ExistsOutcomes(TargetFile(reg[KeyIndex(reg, skill_name)], artifact))

InitSkills ==
    /\ history = <<>>
    /\ new_history = <<>>
    /\ ids_to_remove = {}
    /\ found_tools = {}
    /\ next_call = 0
    /\ deps = FreshDeps
    /\ ctx_obj = FreshDeps
    /\ has_deps = TRUE
    /\ last = NoCall
    /\ created = FALSE
    /\ pc = "skills"
    /\ _skills = <<>>
    /\ loaded = NoLoad
    /\ heap = EmptyHeap
    /\ threads = <<>>
    /\ other_deps = FreshDeps
    /\ caller = 0

RegisterSkill ==
    /\ pc = "skills"
    /\ \E skill_folder \in SkillFolders :
          LET r == register_skill(_skills, skill_folder)
          IN  /\ _skills' = r.skills
              /\ loaded' = [op |-> "register_skill", arg |-> skill_folder,
                            artifact |-> NoArtifact, raised |-> r.raised,
                            result |-> "", before |-> _skills]
    /\ UNCHANGED <<deps, pc>>
    /\ UNCHANGED log_vars
    /\ UNCHANGED call_vars
    /\ UNCHANGED thread_vars
    /\ UNCHANGED session_vars

SkillLoad ==
    /\ pc = "skills"
    /\ \E skill_name \in SkillNames, artifact \in Artifacts :
          \E exists \in ExistsIn(_skills, skill_name, artifact) :
             LET r == skill_load(_skills, skill_name, artifact, exists)
             IN  /\ _skills' = r.skills
                 /\ loaded' = [op |-> "skill_load", arg |-> skill_name,
                               artifact |-> artifact, raised |-> r.raised,
                               result |-> r.result, before |-> _skills]
    /\ UNCHANGED <<deps, pc>>
    /\ UNCHANGED log_vars
    /\ UNCHANGED call_vars
    /\ UNCHANGED thread_vars
    /\ UNCHANGED session_vars

NextSkills == RegisterSkill \/ SkillLoad

SpecSkills == InitSkills /\ [][NextSkills]_vars

----------------------------------------------------------------------------
(* Properties of the compaction pass.                                      *)

\* The pass has been applied to the log (Spec).
Done == pc = "done"

\* The three tool names subject to compaction.
WatchedNames == {"plan_create", "plan_mark_step_complete", "plan_show_progress"}

Last(s) == s[Len(s)]

PidsOf(parts) == {parts[j].pid : j \in 1..Len(parts)}

InPids == PidsOf(AllParts(history))

OutPids == PidsOf(AllParts(new_history))

\* The ToolCall parts of the given tool name in log h, in chronological order.
CallsNamed(h, name) ==
    SelectSeq(AllParts(h), LAMBDA p : p.kind = "ToolCall" /\ p.tool_name = name)

HasId(p) == p.tool_call_id # ""

\* The tool parts (calls and returns) of log h carrying call id id.
ToolPartsWithId(h, id) ==
    SelectSeq(AllParts(h), LAMBDA p : p.kind \in ToolKinds /\ p.tool_call_id = id)

\* The non-empty ids of the watched calls of log h that a later call of the
\* same tool name supersedes.
SupersededIds(h) ==
    UNION {LET c == CallsNamed(h, name)
           IN  {c[j].tool_call_id : j \in {k \in 1..(Len(c) - 1) : HasId(c[k])}}
           : name \in WatchedNames}

\* C1: for every watched tool name the output of the pass holds at most one
\* ToolCall of that name with a non-empty call id, and if it holds one, that
\* part is the chronologically last ToolCall of that name in the input.
C1_AtMostOneLiveCall ==
    Done => \A name \in WatchedNames :
               LET live == SelectSeq(CallsNamed(new_history, name), HasId)
                   inc == CallsNamed(history, name)
               IN  /\ Len(live) <= 1
                   /\ Len(live) = 1 => (inc # <<>> /\ live[1] = Last(inc))

C1_Witness ==
    /\ Done
    /\ \E name \in WatchedNames :
          /\ Len(SelectSeq(CallsNamed(history, name), HasId)) >= 2
          /\ Len(SelectSeq(CallsNamed(new_history, name), HasId)) = 1

\* C2 as stated: for every watched tool name that occurs in the input, the
\* chronologically last ToolCall of that name is retained and every earlier
\* ToolCall of that name with a non-empty id is removed, whatever the ids are.
C2_LastRetainedWhateverIds ==
    Done => \A name \in WatchedNames :
               LET inc == CallsNamed(history, name)
               IN  inc # <<>> =>
                      /\ Last(inc).pid \in OutPids
                      /\ \A j \in 1..(Len(inc) - 1) : HasId(inc[j]) => inc[j].pid \notin OutPids

\* C2 amended: every earlier ToolCall of the name with a non-empty id is
\* removed, and the chronologically last one is retained exactly when its id
\* is not the id of a superseded watched call (removal is by id match alone).
C2_LastRetainedUnlessIdShared ==
    Done => \A name \in WatchedNames :
               LET inc == CallsNamed(history, name)
               IN  inc # <<>> =>
                      /\ Last(inc).pid \in OutPids
                            <=> Last(inc).tool_call_id \notin SupersededIds(history)
                      /\ \A j \in 1..(Len(inc) - 1) : HasId(inc[j]) => inc[j].pid \notin OutPids

C2_Witness ==
    /\ Done
    /\ \E name \in WatchedNames :
          LET inc == CallsNamed(history, name)
          IN  /\ Len(inc) >= 2
              /\ HasId(inc[1]) /\ HasId(Last(inc))
              /\ inc[1].pid \notin OutPids
              /\ Last(inc).pid \in OutPids

\* C3: idempotence: the pass applied to its own output returns that output,
\* the same message objects with the same parts in the same order, and marks
\* no id stale.
C3_Idempotent ==
    Done => LET again == plan_history_processor(deps, new_history)
            IN  again.new_history = new_history /\ again.ids_to_remove = {}

C3_Witness ==
    /\ Done
    /\ new_history # <<>>
    /\ Len(AllParts(new_history)) < Len(AllParts(history))
    /\ \E name \in WatchedNames : CallsNamed(new_history, name) # <<>>

\* C4: for every non-empty call id, either all ToolCall and ToolReturn parts
\* of the input carrying that id are in the output, or none of them is.
C4_PairsWhole ==
    Done => \A id \in CallIds \ {""} :
               LET inp == PidsOf(ToolPartsWithId(history, id))
                   outp == PidsOf(ToolPartsWithId(new_history, id))
               IN  outp = inp \/ outp = {}

C4_Witness ==
    /\ Done
    /\ \E id \in CallIds \ {""} :
          LET inp == ToolPartsWithId(history, id)
          IN  /\ \E j \in 1..Len(inp) : inp[j].kind = "ToolCall"
              /\ \E j \in 1..Len(inp) : inp[j].kind = "ToolReturn"
              /\ ToolPartsWithId(new_history, id) = <<>>

\* a is a subsequence of b.
RECURSIVE IsSubseq(_, _)
IsSubseq(a, b) ==
    IF a = <<>> THEN TRUE
    ELSE IF b = <<>> THEN FALSE
    ELSE IF Head(a) = Head(b) THEN IsSubseq(Tail(a), Tail(b))
    ELSE IsSubseq(a, Tail(b))

\* Message k of the output is an object the pass built.
Rebuilt(k) == new_history[k].oid \notin {history[i].oid : i \in 1..Len(history)}

\* C5: the output is a subsequence of the input: an order-preserving map
\* sends every output message to an input message of the same kind and
\* timestamp whose part list contains the output message's parts in order.
C5_OrderPreserved ==
    Done => \E f \in [1..Len(new_history) -> 1..Len(history)] :
               /\ \A k \in 1..(Len(new_history) - 1) : f[k] < f[k + 1]
               /\ \A k \in 1..Len(new_history) :
                     /\ new_history[k].kind = history[f[k]].kind
                     /\ new_history[k].timestamp = history[f[k]].timestamp
                     /\ IsSubseq(new_history[k].parts, history[f[k]].parts)

C5_Witness ==
    /\ Done
    /\ Len(new_history) >= 2
    /\ \E k \in 1..Len(new_history) : Rebuilt(k)

Stale(p) == p.kind \in ToolKinds /\ p.tool_call_id \in ids_to_remove

NotStale(p) == ~Stale(p)

\* The part lists the surviving messages of log h must carry.
RECURSIVE ExpectedParts(_)
ExpectedParts(h) ==
    IF h = <<>> THEN <<>>
    ELSE LET kept == SelectSeq(Head(h).parts, NotStale)
         IN  (IF kept = <<>> THEN <<>> ELSE <<kept>>) \o ExpectedParts(Tail(h))

\* C6: every input message with at least one non-stale part appears in the
\* output with exactly its non-stale parts, and a message with none is dropped.
C6_PartialRemoval ==
    Done => [k \in 1..Len(new_history) |-> new_history[k].parts] = ExpectedParts(history)

C6_Witness ==
    /\ Done
    /\ \E i \in 1..Len(history) :
          LET ps == history[i].parts
          IN  /\ \E j \in 1..Len(ps) : Stale(ps[j])
              /\ \E j \in 1..Len(ps) : NotStale(ps[j])
    /\ \E i \in 1..Len(history) :
          LET ps == history[i].parts
          IN  ps # <<>> /\ \A j \in 1..Len(ps) : Stale(ps[j])

\* C7: the stale-id set never holds the empty id, and every ToolCall or
\* ToolReturn of the input without a call id is in the output.
C7_MissingIdKept ==
    Done => /\ "" \notin ids_to_remove
            /\ PidsOf(ToolPartsWithId(history, "")) \subseteq OutPids

C7_Witness ==
    /\ Done
    /\ ids_to_remove # {}
    /\ \E name \in WatchedNames :
          LET inc == CallsNamed(history, name)
          IN  Len(inc) >= 2 /\ ~HasId(inc[1]) /\ inc[1].pid \in OutPids

\* C8: every part of the input that is neither a ToolCall nor a ToolReturn is
\* in the output.
C8_NonToolKept ==
    Done => \A j \in 1..Len(AllParts(history)) :
               AllParts(history)[j].kind \notin ToolKinds
                  => AllParts(history)[j].pid \in OutPids

C8_Witness ==
    /\ Done
    /\ \E i \in 1..Len(history) :
          LET ps == history[i].parts
          IN  /\ \E j \in 1..Len(ps) : ps[j].kind \notin ToolKinds
              /\ \E j \in 1..Len(ps) : ps[j].pid \notin OutPids

OtherToolParts(h) ==
    SelectSeq(AllParts(h),
              LAMBDA p : p.kind \in ToolKinds /\ p.tool_name \notin WatchedNames)

\* C24 as stated: every ToolCall and ToolReturn part of the input whose tool
\* name is not a watched one is in the output, however often the tool is
\* called and whatever call ids the parts of the log carry.
C24_OthersKeptWhateverIds ==
    Done => PidsOf(OtherToolParts(history)) \subseteq OutPids

\* C24 amended: a ToolCall or ToolReturn part of a tool that is not watched
\* is in the output exactly when its call id is not the id of a superseded
\* watched call (removal is by id match alone).
C24_OthersKeptUnlessIdShared ==
    Done => \A j \in 1..Len(OtherToolParts(history)) :
               LET p == OtherToolParts(history)[j]
               IN  p.pid \in OutPids <=> p.tool_call_id \notin SupersededIds(history)

C24_Witness ==
    /\ Done
    /\ ids_to_remove # {}
    /\ \E j \in 1..Len(OtherToolParts(history)) :
          /\ HasId(OtherToolParts(history)[j])
          /\ OtherToolParts(history)[j].pid \in OutPids

\* Log h with other arguments and another content in the parts whose pid is
\* in pids, everything else as in h.
Varied(h, pids) ==
    [i \in 1..Len(h) |->
        [h[i] EXCEPT !.parts =
            [j \in 1..Len(h[i].parts) |->
                IF h[i].parts[j].pid \in pids
                THEN [h[i].parts[j] EXCEPT
                         !.args = [steps |-> <<"Step 1">>, step_id |-> 2],
                         !.content = "other content"]
                ELSE h[i].parts[j]]]]

\* Log h without its ToolReturn parts.
WithoutReturns(h) ==
    [i \in 1..Len(h) |->
        [h[i] EXCEPT !.parts = SelectSeq(h[i].parts, LAMBDA p : p.kind # "ToolReturn")]]

\* A holder with a plan in progress.
PlannedDeps ==
    [has_attr |-> TRUE, is_context |-> TRUE,
     steps |-> <<[id |-> 1, description |-> "Step 1", completed |-> TRUE],
                 [id |-> 2, description |-> "Step 2", completed |-> FALSE]>>]

\* C25: what the pass keeps depends only on the tool names and call ids of
\* the ToolCall parts and on the call ids of the ToolReturn parts: a log of
\* the same shape with other arguments and contents, processed in a session
\* with another Plan State, gives the same stale-id set and keeps the parts
\* at the same positions; the ToolReturn parts add nothing to the stale-id
\* set.
C25_KeptByNamesAndIds ==
    Done => /\ \A pids \in SUBSET InPids : \A ctx \in {FreshDeps, PlannedDeps} :
                  LET r == plan_history_processor(ctx, Varied(history, pids))
                  IN  /\ r.ids_to_remove = ids_to_remove
                      /\ PidsOf(AllParts(r.new_history)) = OutPids
                      /\ Len(r.new_history) = Len(new_history)
            /\ plan_history_processor(deps, WithoutReturns(history)).ids_to_remove
                  = ids_to_remove

C25_Witness ==
    /\ Done
    /\ ids_to_remove # {}
    /\ \E j \in 1..Len(AllParts(history)) :
          /\ AllParts(history)[j].kind = "ToolReturn"
          /\ AllParts(history)[j].tool_name \in WatchedNames
          /\ AllParts(history)[j].pid \notin OutPids

\* No watched tool name occurs in more than one ToolCall part of the input.
NothingSuperseded ==
    \A name \in WatchedNames : Len(CallsNamed(history, name)) <= 1

HasParts(message) == message.parts # <<>>

\* C26 as stated: when no watched tool name occurs in more than one ToolCall
\* part, the pass returns the same messages in the same order with none
\* dropped, messages with an empty part list included.
C26_IdentityWithNoneDropped ==
    (Done /\ NothingSuperseded) => new_history = history

\* C26 amended: when no watched tool name occurs in more than one ToolCall
\* part, the pass returns, in the same order, the same message objects except
\* those that carry no parts, which it drops.
C26_IdentityOnMessagesWithParts ==
    (Done /\ NothingSuperseded) => new_history = SelectSeq(history, HasParts)

C26_Witness ==
    /\ Done
    /\ NothingSuperseded
    /\ \E i \in 1..Len(history) : ~HasParts(history[i])
    /\ \E name \in WatchedNames : CallsNamed(new_history, name) # <<>>
    /\ Len(new_history) < Len(history)

\* The messages of log h as values: kind, timestamp and parts, without the
\* identity of the message objects.
Values(h) ==
    [i \in 1..Len(h) |->
        [kind |-> h[i].kind, timestamp |-> h[i].timestamp, parts |-> h[i].parts]]

\* The log splits after its k-th message into a history and a suffix such
\* that every non-empty call id is carried by one ToolCall only and every
\* ToolReturn lies in the segment of its ToolCall.
SplitsAt(k) ==
    LET SegmentOf(pid) ==
            IF pid \in PidsOf(AllParts(SubSeq(history, 1, k))) THEN 1 ELSE 2
    IN  \A id \in CallIds \ {""} :
           LET with == ToolPartsWithId(history, id)
               calls == SelectSeq(with, LAMBDA p : p.kind = "ToolCall")
           IN  /\ Len(calls) <= 1
               /\ Len(calls) = 1 =>
                     \A j \in 1..Len(with) :
                        SegmentOf(with[j].pid) = SegmentOf(calls[1].pid)

\* The pass applied to the first k messages, and then again to its output
\* followed by the remaining messages.
Incremental(k) ==
    LET first == plan_history_processor(deps, SubSeq(history, 1, k))
    IN  plan_history_processor(
            deps, first.new_history \o SubSeq(history, k + 1, Len(history)))

\* C27: incremental compaction equals batch compaction: for every split of
\* the log into a history and a suffix, with every non-empty call id on one
\* ToolCall only and every ToolReturn in the segment of its ToolCall, the
\* pass applied to the compacted history followed by the suffix returns
\* what the pass returns for the whole log.
C27_IncrementalEqualsBatch ==
    Done => \A k \in 0..Len(history) :
               SplitsAt(k) => Values(Incremental(k).new_history) = Values(new_history)

C27_Witness ==
    /\ Done
    /\ \E k \in 1..(Len(history) - 1) :
          LET first == plan_history_processor(deps, SubSeq(history, 1, k))
          IN  /\ SplitsAt(k)
              /\ first.ids_to_remove # {}
              /\ Incremental(k).ids_to_remove # {}
              /\ Incremental(k).ids_to_remove # ids_to_remove

----------------------------------------------------------------------------
(* Properties of the agent run.                                            *)

\* The hook has been applied and the model is about to be called (SpecRun).
AtInference == pc = "infer"

\* C9: at every inference step the history handed to the model holds the
\* most recent ToolCall of each watched tool called so far, and no older
\* ToolCall of that tool with a non-empty id.
C9_ModelSeesLatestCall ==
    AtInference => \A name \in WatchedNames :
                      LET inc == CallsNamed(history, name)
                      IN  inc # <<>> =>
                             /\ Last(inc).pid \in OutPids
                             /\ \A j \in 1..(Len(inc) - 1) :
                                   HasId(inc[j]) => inc[j].pid \notin OutPids

C9_Witness ==
    /\ AtInference
    /\ LET inc == SelectSeq(CallsNamed(history, "plan_show_progress"), HasId)
       IN  /\ Len(inc) = 2
           /\ inc[1].pid \notin OutPids
           /\ inc[2].pid \in OutPids

\* C10: the pass leaves the log it is given and the plan state as they were,
\* and every message of its output is either a message object of the input,
\* unchanged, or a new object.
C10_InputUntouched ==
    /\ [][(pc = "hook" /\ pc' = "infer") => (history' = history /\ deps' = deps)]_vars
    /\ [](AtInference =>
            \A k \in 1..Len(new_history) :
               \/ Rebuilt(k)
               \/ \E i \in 1..Len(history) : new_history[k] = history[i])

C10_Witness ==
    /\ AtInference
    /\ deps.steps # <<>>
    /\ \E k \in 1..Len(new_history) : Rebuilt(k)

\* C11: the pass has no failure mode.  From every log, the empty one and the
\* ones holding messages without parts included, the pass can be applied
\* and comes back with a message sequence instead of an exception; from the
\* empty log it comes back with the empty log.
C11_NoFailureMode ==
    /\ pc = "build" => ENABLED Process
    /\ pc # "raised"
    /\ Done => /\ \A k \in 1..Len(new_history) :
                    /\ new_history[k].kind \in {"request", "response"}
                    /\ new_history[k].parts # <<>>
               /\ history = <<>> => new_history = <<>>

C11_Witness ==
    /\ Done
    /\ \E i \in 1..Len(history) : ~history[i].has_parts
    /\ \E i \in 1..Len(history) : history[i].has_parts /\ history[i].parts = <<>>
    /\ new_history # <<>>

----------------------------------------------------------------------------
(* Properties of the plan operations.                                      *)

\* The object holding the session's plan.
Holder == IF has_deps THEN deps ELSE ctx_obj

\* The last direct call was the named operation and it returned.
Returned(name) == last.name = name /\ ~last.raised

\* C12: plan_create(steps) replaces the whole step list, whatever it was,
\* by one uncompleted step per given description in the given order, with
\* ids 1..N, and returns the render of the new plan.
C12_CreateReplaces ==
    Returned("plan_create") =>
        /\ Len(Holder.steps) = Len(last.args.steps)
        /\ \A i \in 1..Len(Holder.steps) :
              Holder.steps[i] = [id |-> i, description |-> last.args.steps[i],
                                 completed |-> FALSE]
        /\ last.result = str(Holder.steps)

C12_Witness ==
    /\ Returned("plan_create")
    /\ Len(last.before.steps) = 2
    /\ last.before.steps[1].completed
    /\ Len(Holder.steps) = 1
    /\ Holder.steps[1].description # last.before.steps[1].description

\* The holder, as the last call found it, had a step with the given id.
HadStep(step_id) ==
    \E i \in 1..Len(last.before.steps) : last.before.steps[i].id = step_id

\* The holder, as the last call found it, held a foreign value in the slot.
WasMismatched == last.before.has_attr /\ ~last.before.is_context

\* C13: plan_mark_step_complete(k), when a step with id k exists, sets that
\* step's completed flag, leaves id, description and flag of every other step
\* and the length and order of the list as they were, and returns the render
\* of the resulting plan.
C13_MarkFrame ==
    (last.name = "plan_mark_step_complete" /\ HadStep(last.args.step_id)) =>
        /\ ~last.raised
        /\ Len(Holder.steps) = Len(last.before.steps)
        /\ \A i \in 1..Len(Holder.steps) :
              /\ Holder.steps[i].id = last.before.steps[i].id
              /\ Holder.steps[i].description = last.before.steps[i].description
              /\ Holder.steps[i].completed =
                    (last.before.steps[i].completed
                       \/ last.before.steps[i].id = last.args.step_id)
        /\ last.result = str(Holder.steps)

C13_Witness ==
    /\ Returned("plan_mark_step_complete")
    /\ last.args.step_id = 1
    /\ Len(last.before.steps) = 2
    /\ ~last.before.steps[1].completed
    /\ last.before.steps[2].completed
    /\ Holder.steps[1].completed

\* C14: plan_mark_step_complete(k), when no step has id k (k above N, zero,
\* negative, or no plan yet), returns exactly "Step k not found." without
\* raising and leaves the step list as it was.
C14_NotFound ==
    (/\ last.name = "plan_mark_step_complete"
     /\ ~WasMismatched
     /\ ~HadStep(last.args.step_id)) =>
        /\ ~last.raised
        /\ last.result = "Step " \o ToString(last.args.step_id) \o " not found."
        /\ Holder.steps = last.before.steps

C14_Witness ==
    /\ Returned("plan_mark_step_complete")
    /\ last.args.step_id < 0
    /\ Len(last.before.steps) = 2
    /\ last.before.steps[2].completed
    /\ last.result = "Step -1 not found."

\* C15: plan_show_progress returns the render of the current plan and never
\* changes the step list; on a holder no plan operation has touched it
\* returns exactly "No plan created yet.".
C15_ShowFrame ==
    Returned("plan_show_progress") =>
        /\ Holder.steps = last.before.steps
        /\ last.result = str(last.before.steps)
        /\ ~last.before.has_attr => last.result = "No plan created yet."

C15_Witness ==
    /\ Returned("plan_show_progress")
    /\ Len(Holder.steps) = 2
    /\ Holder.steps[1].completed
    /\ ~Holder.steps[2].completed

\* The step lines of the render contract, each after a newline.
RECURSIVE ContractLines(_)
ContractLines(ss) ==
    IF ss = <<>> THEN ""
    ELSE "\n" \o (IF Head(ss).completed THEN "[x] " ELSE "[ ] ")
         \o ToString(Head(ss).id) \o ". " \o Head(ss).description
         \o ContractLines(Tail(ss))

\* The last direct call returned a render of the plan.
ReturnedRender ==
    \/ Returned("plan_create")
    \/ Returned("plan_show_progress")
    \/ Returned("plan_mark_step_complete") /\ HadStep(last.args.step_id)

\* C16: the render is the literal "No plan created yet." when no plan_create
\* has been performed in the session; after any plan_create it is the line
\* "Current Plan:" followed by one line per step in list order, "[x] id.
\* description" or "[ ] id. description", joined by newlines with no
\* trailing newline.
C16_RenderContract ==
    ReturnedRender =>
        last.result = IF created
                      THEN "Current Plan:" \o ContractLines(Holder.steps)
                      ELSE "No plan created yet."

\* C16 holds on every session whose plan_create calls were given at least
\* one step.
C16_RenderOfNonEmptyPlan ==
    (ReturnedRender /\ (created => Holder.steps # <<>>)) =>
        last.result = IF created
                      THEN "Current Plan:" \o ContractLines(Holder.steps)
                      ELSE "No plan created yet."

\* C17: after any sequence of plan operations called one at a time on one
\* session, the step ids of the plan are exactly 1, 2, ..., N in list order,
\* so at most one step matches any given id.
C17_SequentialIds ==
    /\ \A i \in 1..Len(Holder.steps) : Holder.steps[i].id = i
    /\ \A step_id \in StepIds :
          Cardinality({i \in 1..Len(Holder.steps) : Holder.steps[i].id = step_id}) <= 1

C17_Witness ==
    /\ Returned("plan_mark_step_complete")
    /\ Len(Holder.steps) = 2
    /\ Holder.steps[2].completed
    /\ Len(last.before.steps) = 2

\* Step list b is step list a with, at most, more steps completed.
Progressed(a, b) ==
    /\ Len(b) = Len(a)
    /\ \A i \in 1..Len(a) :
          /\ b[i].id = a[i].id
          /\ b[i].description = a[i].description
          /\ a[i].completed => b[i].completed

\* C18: between two plan_create calls the plan only progresses: a step of any
\* operation other than plan_create removes, adds, renumbers and re-describes
\* no step, and leaves every completed step completed.
C18_OnlyProgress ==
    [][last'.name # "plan_create" => Progressed(Holder.steps, Holder'.steps)]_vars

C18_Witness ==
    /\ Returned("plan_mark_step_complete")
    /\ last.args.step_id = 1
    /\ Len(last.before.steps) = 2
    /\ last.before.steps[1].completed
    /\ Holder.steps[1].completed

\* The holder has its PlanningContext.
HasContext(h) == h.has_attr /\ h.is_context

\* C19: the Plan Context is created by the first plan operation of the
\* session, on the dependency object or, without one, on the run-context
\* object; every later operation works on that same context, so it reads and
\* marks the steps the earlier operations left, and the context is never
\* reset or removed.
C19_Lifecycle ==
    /\ [](Returned(last.name) /\ last.name # "" => HasContext(Holder))
    /\ [](has_deps => ctx_obj = FreshDeps)
    /\ [](~has_deps => deps = FreshDeps)
    /\ [][HasContext(Holder) =>
             /\ HasContext(Holder')
             /\ last'.before = Holder
             /\ last'.name = "plan_show_progress" =>
                   /\ Holder'.steps = Holder.steps
                   /\ last'.result = str(Holder.steps)
             /\ last'.name = "plan_mark_step_complete" =>
                   /\ Progressed(Holder.steps, Holder'.steps)
                   /\ \A i \in 1..Len(Holder.steps) :
                         Holder.steps[i].id = last'.args.step_id =>
                             Holder'.steps[i].completed]_vars

C19_Witness ==
    /\ ~has_deps
    /\ Returned("plan_show_progress")
    /\ HasContext(last.before)
    /\ Len(Holder.steps) = 2
    /\ Holder.steps[2].completed
    /\ last.result = "Current Plan:\n[ ] 1. Step 1\n[x] 2. Step 2"

\* C20: when the slot of the session's holder holds a value that is not a
\* Plan State, every plan operation fails with the type-mismatch error: it
\* returns no text, leaves the held value in place and changes no plan.
C20_FatalMismatch ==
    (last.name # "" /\ WasMismatched) =>
        /\ last.raised
        /\ last.result = ""
        /\ Holder = last.before
        /\ ~created

C20_Witness ==
    /\ last.name = "plan_create"
    /\ last.args.steps # <<>>
    /\ WasMismatched
    /\ last.raised

\* The step is a plan_mark_step_complete with the argument of the
\* plan_mark_step_complete that was the call before it.
MarkRepeated ==
    /\ last.name = "plan_mark_step_complete"
    /\ last'.name = "plan_mark_step_complete"
    /\ last'.args.step_id = last.args.step_id

\* C32: plan_mark_step_complete is idempotent: calling it twice in a row
\* with the same step id on one session leaves the same step list and
\* returns the same text as calling it once, whether step k exists or not.
C32_MarkIdempotent ==
    [][MarkRepeated =>
          /\ Holder'.steps = Holder.steps
          /\ last'.raised = last.raised
          /\ last'.result = last.result]_vars

\* A plan_mark_step_complete(2) returned on a plan of two steps in which
\* step 2, and only step 2, was completed when it was called.
C32_Witness ==
    /\ Returned("plan_mark_step_complete")
    /\ last.args.step_id = 2
    /\ Len(last.before.steps) = 2
    /\ ~last.before.steps[1].completed
    /\ last.before.steps[2].completed
    /\ Holder.steps = last.before.steps
    /\ last.result = str(Holder.steps)

----------------------------------------------------------------------------
(* Properties of the skill registry.                                       *)

\* The skill names of a registry, in insertion order, joined by ", ".
RECURSIVE NamesListed(_, _)
NamesListed(reg, i) ==
    IF i > Len(reg) THEN ""
    ELSE reg[i].name \o (IF i < Len(reg) THEN ", " ELSE "") \o NamesListed(reg, i + 1)

\* The skill name was registered when the last call began.
WasRegistered(name) ==
    \E i \in 1..Len(loaded.before) : loaded.before[i].name = name

\* The file the last skill_load was asked for, when the skill was registered.
AskedFile ==
    LET meta == CHOOSE m \in {loaded.before[i] : i \in 1..Len(loaded.before)} :
                    m.name = loaded.arg
    IN  IF loaded.artifact.is_none \/ loaded.artifact.value \in {"", " "}
        THEN meta.skill_md_path
        ELSE IF loaded.artifact.value = "/secret.txt" THEN "/secret.txt"
        ELSE meta.folder_path \o "/" \o loaded.artifact.value

\* What C21 asks of the last skill_load.
LoadAnswersInText ==
    /\ loaded.raised = ""
    /\ loaded.result # ""
    /\ _skills = loaded.before
    /\ ~WasRegistered(loaded.arg) =>
          loaded.result = "Error: Skill '" \o loaded.arg
                          \o "' not registered. Available skills: "
                          \o (IF loaded.before = <<>> THEN "none"
                              ELSE NamesListed(loaded.before, 1))
    /\ (WasRegistered(loaded.arg) /\ Stat(AskedFile) \in {"missing", "refused"}) =>
          loaded.result = "Error: Artifact file not found: " \o AskedFile

\* C21: skill_load never raises: for every skill name and every artifact
\* path, absent, empty or naming a file that does not exist, it returns
\* text, the not-registered message listing the registered names ("none"
\* for an empty registry) or the not-found message where they apply, and
\* it leaves the registry unchanged.
C21_LoadNeverRaises == loaded.op = "skill_load" => LoadAnswersInText

\* C21 holds for every artifact path the operating system accepts in a stat
\* call.
C21_LoadOfStatablePaths ==
    (/\ loaded.op = "skill_load"
     /\ WasRegistered(loaded.arg) => Stat(AskedFile) # "refused") =>
        LoadAnswersInText

\* C22: register_skill fails before any registration with a file-not-found
\* error on a path that does not exist, and with a value error on a path
\* that is not a directory and on a directory with no skill.md beneath it;
\* in these three cases no skill is added to the registry.
C22_RegisterRejects ==
    loaded.op = "register_skill" =>
        /\ loaded.arg = "/nowhere" =>
              loaded.raised = "FileNotFoundError" /\ _skills = loaded.before
        /\ loaded.arg = "/notes.txt" =>
              loaded.raised = "ValueError" /\ _skills = loaded.before
        /\ loaded.arg = "/empty" =>
              loaded.raised = "ValueError" /\ _skills = loaded.before

C22_Witness ==
    /\ loaded.op = "register_skill"
    /\ loaded.arg = "/empty"
    /\ loaded.raised = "ValueError"
    /\ Len(loaded.before) = 2
    /\ _skills = loaded.before

\* C31: register_skill is all-or-nothing on failure: a call that raises
\* leaves the registry exactly as it was before the call, with no skill of
\* that folder registered or overwritten.
C31_RegisterAllOrNothing ==
    (loaded.op = "register_skill" /\ loaded.raised # "") =>
        _skills = loaded.before

\* The registry entry of the skill the last skill_load named.
LoadedMeta ==
    CHOOSE m \in {loaded.before[i] : i \in 1..Len(loaded.before)} :
        m.name = loaded.arg

\* The file is located in the folder.
InFolder(path, folder) ==
    \E name \in {"skill.md", "example.txt", "notes.txt", "secret.txt"} :
        path = folder \o "/" \o name

\* C33: skill_load only ever returns the content of a file located within
\* the registered skill's folder: for no artifact path, relative with
\* parent-directory components or absolute, does it return the content of
\* a file outside that folder.
C33_LoadStaysInFolder ==
    (loaded.op = "skill_load" /\ loaded.raised = "" /\ WasRegistered(loaded.arg)) =>
        \A f \in Files :
            loaded.result = f.text => InFolder(f.path, LoadedMeta.folder_path)

----------------------------------------------------------------------------
(* Properties of sessions with separate dependency objects.                *)

\* C28: the plan operations of a session read and write only the Plan
\* Context attached to the session's own dependency object: a call of one
\* session finds its own object as its last call left it, answers from it,
\* and changes nothing of the object of the other session.
C28_SessionIsolation ==
    [][/\ caller' = 1 => (other_deps' = other_deps /\ last'.before = deps)
       /\ caller' = 2 => (deps' = deps /\ last'.before = other_deps)
       /\ (last'.name = "plan_show_progress" /\ ~last'.raised) =>
             last'.result = str(IF caller' = 1 THEN deps.steps ELSE other_deps.steps)
      ]_vars

C28_Witness ==
    /\ caller = 2
    /\ Returned("plan_mark_step_complete")
    /\ Len(deps.steps) = 2
    /\ ~deps.steps[1].completed
    /\ deps.steps[2].completed
    /\ Len(other_deps.steps) = 1
    /\ other_deps.steps[1].completed
    /\ ~last.before.steps[1].completed

----------------------------------------------------------------------------
(* Properties of plan operations called concurrently on one session.       *)

\* Thread t has returned.
Returned_t(t) == pc = "threads" /\ threads[t].at = "done"

\* Thread t is a plan_mark_step_complete that returned a rendered plan.
MarkRendered(t) ==
    /\ Returned_t(t)
    /\ threads[t].name = "plan_mark_step_complete"
    /\ threads[t].k # 0

\* The render thread t returned shows step number id as completed.
ShownCompleted(t, id) ==
    /\ threads[t].result = str(threads[t].shown)
    /\ \E i \in 1..Len(threads[t].shown) :
          threads[t].shown[i].id = id /\ threads[t].shown[i].completed

\* The step list thread t marked was the session's plan when t returned.
MarkedCurrentPlan(t) == threads[t].list = threads[t].current

\* C29 as stated: under concurrent, unserialized calls, a
\* plan_mark_step_complete(k) that returns a rendered plan returns a render
\* showing step k completed, and the step it marked is a step of the
\* session's current plan.
C29_MarkShowsCompleted ==
    \A t \in DOMAIN threads :
        MarkRendered(t) =>
            /\ ShownCompleted(t, threads[t].args.step_id)
            /\ MarkedCurrentPlan(t)

\* C29 amended: under concurrent, unserialized calls, a
\* plan_mark_step_complete(k) that returns a rendered plan, and whose marked
\* step list is still the session's current plan when it returns, returns a
\* render in which step k is shown as completed.
C29_MarkOnCurrentPlanShowsCompleted ==
    \A t \in DOMAIN threads :
        (MarkRendered(t) /\ MarkedCurrentPlan(t)) =>
            ShownCompleted(t, threads[t].args.step_id)

\* A mark returned a render of the plan it marked while a plan_create of
\* another thread had replaced the plan of the initial state.
C29_Witness ==
    \E t, u \in DOMAIN threads :
        /\ MarkRendered(t) /\ MarkedCurrentPlan(t)
        /\ u # t /\ threads[u].name = "plan_create" /\ threads[u].at \in {"render", "done"}
        /\ threads[t].list > 1

\* Every call has returned.
AllReturned == pc = "threads" /\ \A t \in DOMAIN threads : Returned_t(t)

\* The calls whose existence check found no Plan Context.
FoundNone == {t \in DOMAIN threads : threads[t].at # "hasattr" /\ ~threads[t].has}

\* One Plan Context was created, and every call used it.
SingleContext ==
    /\ Len(heap.ctxs) = 1
    /\ \A t \in DOMAIN threads : threads[t].ctx = heap.slot

\* C30 as stated: when the first plan operations of a session access the
\* Plan Context concurrently, the session ends up with a single Plan Context
\* that all of them used.
C30_SingleContext == (AllReturned /\ FoundNone # {}) => SingleContext

\* C30 amended: when the first plan operations of a session access the Plan
\* Context concurrently and the existence check of only one of them finds
\* no Plan Context, the session ends up with a single Plan Context that all
\* of them used.
C30_SingleContextAfterOneCreation ==
    (AllReturned /\ Cardinality(FoundNone) = 1) => SingleContext

\* Two calls ran on a session that had no context, one created it and the
\* other mutated it.
C30_Witness ==
    /\ AllReturned
    /\ Cardinality(FoundNone) = 1
    /\ \E t \in DOMAIN threads :
          t \notin FoundNone /\ threads[t].name = "plan_create"
    /\ SingleContext

====
